---- MODULE Spec2Model ----
(***************************************************************************)
(* PhotoShare server (src/server.js): the list, upload, delete, like and   *)
(* rate handlers over the two blob containers "photos" and "metadata".     *)
(*                                                                         *)
(* Spec has the upload, delete, like and rate requests of a server that    *)
(* starts on an empty store.  StoredSpec has like, rate and delete         *)
(* requests on two stored photos, KeySpec one upload of a file of any      *)
(* name and the deletes after it, ListSpec the listings of a populated     *)
(* metadata container with deletes alongside.                              *)
(*                                                                         *)
(* Every `await` of a storage call is one atomic step of the store; the    *)
(* synchronous code of a handler up to its next storage call runs in the   *)
(* same step as the completion of the previous call.  A storage call may   *)
(* fail (throw), which the handlers turn into a 500 response.              *)
(*                                                                         *)
(* Strings are sequences of one-character strings.  JavaScript numbers are *)
(* exact fractions n/d in lowest terms; for the integer ratings and the    *)
(* counts (at most 6) of this model the IEEE-754 results of                *)
(* (mean * count + r) / (count + 1) are the roundings of these fractions.  *)
(***************************************************************************)
EXTENDS Integers, Naturals, Sequences, FiniteSets, Bags, TLC

\* ------------------------------------------------------------------ bounds
\* Number of requests that arrive in a run.
MaxReq == 3
\* Largest value Date.now() takes in a run (the clock starts at 1).
MaxTime == 2
\* Number of storage calls that fail in a run.
MaxFaults == 1
\* Largest length of the file names of the uploads whose image key is
\* followed from upload to delete.
MaxLen == 2

\* ------------------------------------------------------- JavaScript values
JSNum(n, d) == [t |-> "num", n |-> n, d |-> d, s |-> <<>>]
JSNaN == [t |-> "nan", n |-> 0, d |-> 1, s |-> <<>>]
JSNull == [t |-> "null", n |-> 0, d |-> 1, s |-> <<>>]
JSUndefined == [t |-> "undef", n |-> 0, d |-> 1, s |-> <<>>]
JSStr(str) == [t |-> "str", n |-> 0, d |-> 1, s |-> str]

Abs(x) == IF x < 0 THEN -x ELSE x

RECURSIVE GCD(_, _)
GCD(a, b) == IF b = 0 THEN a ELSE GCD(b, a % b)

\* The number n/d (d # 0) in lowest terms with a positive denominator.
Frac(n, d) ==
    LET g == GCD(Abs(n), Abs(d))
        sg == IF d < 0 THEN -1 ELSE 1
    IN  JSNum(sg * (n \div g), Abs(d) \div g)

Digits == <<"0", "1", "2", "3", "4", "5", "6", "7", "8", "9">>
DigitVal(c) == (CHOOSE i \in 1..10 : Digits[i] = c) - 1
IsDigit(c) == \E i \in 1..10 : Digits[i] = c

RECURSIVE DigitsVal(_)
DigitsVal(str) ==
    IF str = <<>> THEN 0
    ELSE 10 * DigitsVal(SubSeq(str, 1, Len(str) - 1)) + DigitVal(str[Len(str)])

\* Number.prototype.toString of a non-negative integer.
RECURSIVE NatToString(_)
NatToString(k) ==
    IF k < 10 THEN <<Digits[k + 1]>>
    ELSE NatToString(k \div 10) \o <<Digits[(k % 10) + 1]>>

\* The decimal digits of r/d (0 <= r < d), at most k of them.
RECURSIVE FracDigits(_, _, _)
FracDigits(r, d, k) ==
    IF r = 0 \/ k = 0 THEN <<>>
    ELSE <<Digits[((10 * r) \div d) + 1]>> \o FracDigits((10 * r) % d, d, k - 1)

\* ToNumber of a string: the empty string is 0, decimal digits are their
\* value and anything else is NaN.
StringToNumber(str) ==
    IF str = <<>> THEN JSNum(0, 1)
    ELSE IF \A i \in 1..Len(str) : IsDigit(str[i])
    THEN JSNum(DigitsVal(str), 1)
    ELSE JSNaN

\* ToNumber: null is 0, undefined is NaN.
ToNumber(v) ==
    CASE v.t = "num" -> v
      [] v.t = "str" -> StringToNumber(v.s)
      [] v.t = "null" -> JSNum(0, 1)
      [] OTHER -> JSNaN

\* ToBoolean, the operand of `!`: undefined, null, NaN, 0 and "" are falsy.
ToBoolean(v) ==
    CASE v.t = "num" -> v.n # 0
      [] v.t = "str" -> v.s # <<>>
      [] OTHER -> FALSE

\* ToString of a number or of a string (the operands of a concatenating +).
JSToString(v) ==
    CASE v.t = "str" -> v.s
      [] v.t = "nan" -> <<"N", "a", "N">>
      [] v.t = "null" -> <<"n", "u", "l", "l">>
      [] v.t = "undef" -> <<"u", "n", "d", "e", "f", "i", "n", "e", "d">>
      [] OTHER ->
            (IF v.n < 0 THEN <<"-">> ELSE <<>>)
            \o NatToString(Abs(v.n) \div v.d)
            \o (IF v.d = 1 THEN <<>>
                ELSE <<".">> \o FracDigits(Abs(v.n) % v.d, v.d, 17))

\* a < b where at least one operand is not a string: both are converted to
\* numbers and a comparison with NaN is false.
LessThan(a, b) ==
    LET x == ToNumber(a)
        y == ToNumber(b)
    IN  /\ x.t = "num"
        /\ y.t = "num"
        /\ x.n * y.d < y.n * x.d

\* a * b
Multiply(a, b) ==
    LET x == ToNumber(a)
        y == ToNumber(b)
    IN  IF x.t = "nan" \/ y.t = "nan" THEN JSNaN
        ELSE Frac(x.n * y.n, x.d * y.d)

\* a + b: string concatenation as soon as one operand is a string.
Add(a, b) ==
    IF a.t = "str" \/ b.t = "str"
    THEN JSStr(JSToString(a) \o JSToString(b))
    ELSE LET x == ToNumber(a)
             y == ToNumber(b)
         IN  IF x.t = "nan" \/ y.t = "nan" THEN JSNaN
             ELSE Frac(x.n * y.d + y.n * x.d, x.d * y.d)

\* a / b for a divisor that is not zero (the divisor is ratingCount + 1).
Divide(a, b) ==
    LET x == ToNumber(a)
        y == ToNumber(b)
    IN  IF x.t = "nan" \/ y.t = "nan" \/ y.n = 0 THEN JSNaN
        ELSE Frac(x.n * y.d, x.d * y.n)

\* JSON.stringify of a number-valued property: NaN is written as null.
JSONNumber(v) == IF v.t = "nan" THEN JSNull ELSE v

\* ------------------------------------------------------------ rate: inputs
\* if (!rating || rating < 1 || rating > 5) return 400
RatingRejected(rating) ==
    \/ ~ToBoolean(rating)
    \/ LessThan(rating, JSNum(1, 1))
    \/ LessThan(JSNum(5, 1), rating)

\* The request bodies' rating values: missing, numbers and strings.
RatingInputs ==
    {JSUndefined, JSNum(0, 1), JSNum(1, 1), JSNum(5, 1), JSNum(6, 1),
     JSStr(<<"a">>)}

\* The request bodies' title, imageData and fileName values.
Titles == {JSUndefined, JSStr(<<>>), JSStr(<<"t">>)}
ImageDatas == {JSUndefined, JSStr(<<>>), JSStr(<<"d">>)}
FileNames == {JSUndefined, JSStr(<<>>), JSStr(<<"b", "/", "?">>)}

\* ----------------------------------------------------------------- strings
BLOB_SERVICE_URL == <<"h", ":", "/", "/", "s">>
CONTAINER_NAME == <<"p", "h", "o", "t", "o", "s">>
METADATA_CONTAINER == <<"m", "e", "t", "a", "d", "a", "t", "a">>
SAS_TOKEN == <<"s", "v", "=", "1">>

Letters ==
    {"a", "b", "c", "d", "e", "f", "g", "h", "i", "j", "k", "l", "m",
     "n", "o", "p", "q", "r", "s", "t", "u", "v", "w", "x", "y", "z",
     "A", "B", "C", "D", "E", "F", "G", "H", "I", "J", "K", "L", "M",
     "N", "O", "P", "Q", "R", "S", "T", "U", "V", "W", "X", "Y", "Z"}

\* (variant) a file name that is used as it comes.
SanitizeNothing(str) == str

\* fileName.replace(/[^a-zA-Z0-9.-]/g, '_')
Sanitize(str) ==
    [i \in 1..Len(str) |->
        IF str[i] \in Letters \/ IsDigit(str[i]) \/ str[i] \in {".", "-"}
        THEN str[i] ELSE "_"]

\* `${photoId}-${sanitizedFileName}` with photoId = Date.now().toString()
BlobName(photoId, sanitizedFileName) ==
    NatToString(photoId) \o <<"-">> \o sanitizedFileName

\* `${BLOB_SERVICE_URL}/${CONTAINER_NAME}/${blobName}?${SAS_TOKEN}`
ImageUrl(blobName) ==
    BLOB_SERVICE_URL \o <<"/">> \o CONTAINER_NAME \o <<"/">> \o blobName
        \o <<"?">> \o SAS_TOKEN

\* String.prototype.split(sep) for a one-character separator.
RECURSIVE Split(_, _)
Split(str, sep) ==
    IF \A i \in 1..Len(str) : str[i] # sep THEN <<str>>
    ELSE LET k == CHOOSE i \in 1..Len(str) :
                    /\ str[i] = sep
                    /\ \A j \in 1..(i - 1) : str[j] # sep
         IN  <<SubSeq(str, 1, k - 1)>> \o Split(SubSeq(str, k + 1, Len(str)), sep)

\* The blob name delete takes from photo.url: the last "/" segment up to "?".
UrlBlobName(url) ==
    LET urlParts == Split(url, "/")
        blobNameWithParams == urlParts[Len(urlParts)]
    IN  Split(blobNameWithParams, "?")[1]
\* ------------------------------------------------------------------- state
VARIABLES
    containers,  \* the containers of the storage account that exist
    images,      \* the blob names in the photos container
    meta,        \* the metadata container: photoId |-> content of {photoId}.json
    foreign,     \* the objects of the metadata container that no upload of
                 \* this server wrote, each with its name and its text
    now,         \* Date.now()
    reqs,        \* the requests being handled, in arrival order, each with
                 \* its handler's locals
    arrived,     \* number of requests received so far
    lastResp,    \* the response sent by the last step, NoResp if it sent none
    faults,      \* number of storage calls that have failed
    phase,       \* history: how the requests on each id have overlapped so far
    likeOk,      \* history: number of 200 responses to like requests, per id
    rateOk,      \* history: number of 200 responses to rate requests, per id
    submitted    \* history: the ratings that passed validation, per id (a bag)

vars ==
    <<containers, images, meta, foreign, now, reqs, arrived, lastResp, faults,
      phase, likeOk, rateOk, submitted>>

store == <<containers, images, meta>>

PhotoIds == 1..MaxTime

NoPhoto ==
    [id |-> 0, title |-> <<>>, url |-> <<>>, fileName |-> <<>>, likes |-> 0,
     rating |-> JSNum(0, 1), ratingCount |-> 0, uploadedAt |-> 0]

\* The object literal of the upload handler (caption, location, tags and
\* comments are copied through and read by no handler; they are left out).
NewPhoto(photoId, title, imageUrl, sanitizedFileName, uploadedAt) ==
    [id |-> photoId,
     title |-> IF ToBoolean(title) THEN title.s ELSE <<"U", "n", "t", "i", "t", "l", "e", "d">>,
     url |-> imageUrl,
     fileName |-> sanitizedFileName,
     likes |-> 0,
     rating |-> JSNum(0, 1),
     ratingCount |-> 0,
     uploadedAt |-> uploadedAt]

\* JSON.stringify(photo): the text stored in {photoId}.json, kept as the
\* object it denotes; a NaN rating is written as null.
JSONstringify(photo) == [photo EXCEPT !.rating = JSONNumber(@)]

\* JSON.parse of a text written by JSON.stringify.
JSONparse(text) == text

\* (variant) a like that leaves the count as it was.
LikeMutationNone(photo) == photo

\* (variant) a like that also resets the rating of the record.
LikeMutationResetsRating(photo) ==
    [photo EXCEPT !.likes = @ + 1, !.rating = JSNum(0, 1), !.ratingCount = 0]

\* photo.likes++
LikeMutation(photo) == [photo EXCEPT !.likes = @ + 1]

\* (variant) the running mean taken with the new count in the numerator.
RateMutationNewCount(photo, rating) ==
    LET newRatingCount == photo.ratingCount + 1
    IN  [photo EXCEPT
            !.rating = Divide(Add(Multiply(photo.rating, JSNum(newRatingCount, 1)),
                                  rating),
                              JSNum(newRatingCount, 1)),
            !.ratingCount = newRatingCount]

\* (variant) a rate that writes the record back without its likes.
RateMutationDropsLikes(photo, rating) ==
    LET newRatingCount == photo.ratingCount + 1
    IN  [photo EXCEPT
            !.rating = Divide(Add(Multiply(photo.rating, JSNum(photo.ratingCount, 1)),
                                  rating),
                              JSNum(newRatingCount, 1)),
            !.ratingCount = newRatingCount,
            !.likes = 0]

\* newRatingCount = photo.ratingCount + 1;
\* photo.rating = ((photo.rating * photo.ratingCount) + rating) / newRatingCount;
\* photo.ratingCount = newRatingCount
RateMutation(photo, rating) ==
    LET newRatingCount == photo.ratingCount + 1
    IN  [photo EXCEPT
            !.rating = Divide(Add(Multiply(photo.rating, JSNum(photo.ratingCount, 1)),
                                  rating),
                              JSNum(newRatingCount, 1)),
            !.ratingCount = newRatingCount]

\* A request with the locals of its handler; pc is the storage call it
\* waits for.  missing records that the body lacks one of title, imageData
\* and fileName; warned that the handler logged 'Could not delete image blob'
\* (delete) or 'Error reading blob' (list).  names are the blobs a listing
\* has still to read and photos the array it has filled so far.
NewReq(kind, id, pc) ==
    [kind |-> kind, id |-> id, pc |-> pc, rating |-> JSUndefined,
     photo |-> NoPhoto, blob |-> <<>>, imageWritten |-> FALSE,
     warned |-> FALSE, missing |-> FALSE, names |-> <<>>, photos |-> <<>>]

\* The requests without request r, whose response has been sent.
Remove(r) == SubSeq(reqs, 1, r - 1) \o SubSeq(reqs, r + 1, Len(reqs))

InFlight == 1..Len(reqs)

\* No request on this id is being handled.
Idle(id) == \A r \in InFlight : reqs[r].id # id

NoBody == [likes |-> 0, rating |-> JSNum(0, 1), ratingCount |-> 0]
BodyOf(photo) ==
    [likes |-> photo.likes, rating |-> JSONNumber(photo.rating),
     ratingCount |-> photo.ratingCount]

\* res.status(status).json(body) of request req, sent from position req.pc.
Respond(req, status, body) ==
    lastResp' = [kind |-> req.kind, id |-> req.id, arg |-> req.rating,
                 status |-> status, body |-> body, warned |-> req.warned,
                 missing |-> req.missing, at |-> req.pc, photos |-> req.photos]

\* blobClient.exists() on {photoId}.json
MetaExists(photoId) == METADATA_CONTAINER \in containers /\ photoId \in DOMAIN meta

\* (variant) a write that replaces the whole container by the one object.
MetaPutAlone(photoId, text) == [i \in {photoId} |-> text]

\* blockBlobClient.upload(json) on {photoId}.json: create or overwrite.
MetaPut(photoId, text) ==
    [i \in DOMAIN meta \cup {photoId} |-> IF i = photoId THEN text ELSE meta[i]]

\* (variant) a delete that leaves the blob in place.
MetaRemoveNone(photoId) == meta

\* (variant) a delete that empties the container.
MetaRemoveAll(photoId) == [i \in {} |-> NoPhoto]

\* blobClient.delete() on {photoId}.json
MetaRemove(photoId) == [i \in DOMAIN meta \ {photoId} |-> meta[i]]

\* ------------------------------------------------------ history of overlaps
\* phase[id] is "unborn" until an upload takes the id, "uploading" while
\* that first upload runs alone, "serial" from its 201 response for as long
\* as like and rate requests on the id run one at a time, "deleting" while a
\* delete runs with no other request on the id, "deleted" after its 200
\* response, and "broken" as soon as two requests on the id overlap, the id
\* is taken by a second upload, or an upload or delete ends with a 500.
PhaseOnArrival(kind, id) ==
    CASE kind = "upload" ->
            IF phase[id] = "unborn" /\ Idle(id) THEN "uploading" ELSE "broken"
      [] kind = "delete" ->
            IF phase[id] = "deleted" THEN "deleted"
            ELSE IF Idle(id) THEN "deleting" ELSE "broken"
      [] OTHER ->
            IF phase[id] \in {"serial", "deleted"} /\ Idle(id) THEN phase[id]
            ELSE "broken"

PhaseOnResponse(kind, id, status) ==
    CASE kind = "upload" ->
            IF status = 201 /\ phase[id] = "uploading" THEN "serial" ELSE "broken"
      [] kind = "delete" ->
            IF status = 200 /\ phase[id] = "deleting" THEN "deleted" ELSE "broken"
      [] OTHER -> phase[id]

\* The body lacks title, imageData or fileName, or holds an empty one.
FieldMissing(title, imageData, fileName) ==
    \E v \in {title, imageData, fileName} : v = JSUndefined \/ v = JSStr(<<>>)

\* ------------------------------------------------------------------- steps
NoResp ==
    [kind |-> "none", id |-> 0, arg |-> JSUndefined, status |-> 0,
     body |-> NoBody, warned |-> FALSE, missing |-> FALSE, at |-> "none",
     photos |-> <<>>]

Init ==
    /\ containers \in SUBSET {CONTAINER_NAME, METADATA_CONTAINER}
    /\ images = {}
    /\ meta = [i \in {} |-> NoPhoto]
    /\ foreign = {}
    /\ now = 1
    /\ reqs = <<>>
    /\ arrived = 0
    /\ lastResp = NoResp
    /\ faults = 0
    /\ phase = [i \in PhotoIds |-> "unborn"]
    /\ likeOk = [i \in PhotoIds |-> 0]
    /\ rateOk = [i \in PhotoIds |-> 0]
    /\ submitted = [i \in PhotoIds |-> EmptyBag]

\* A step that sends no response.
Silent == lastResp' = NoResp

\* Time passes.
Tick ==
    /\ now < MaxTime
    /\ now' = now + 1
    /\ Silent
    /\ UNCHANGED <<store, foreign, reqs, arrived, faults, phase, likeOk, rateOk,
                   submitted>>

\* A storage call that throws: one more failure.
Throws(fail) ==
    /\ fail => faults < MaxFaults
    /\ faults' = IF fail THEN faults + 1 ELSE faults

\* A request that is answered in the step in which it arrives.
Answered(req, status) ==
    /\ arrived' = arrived + 1
    /\ Respond(req, status, NoBody)
    /\ UNCHANGED <<store, now, foreign, reqs, phase, likeOk, rateOk, submitted>>

\* A request that goes on to its next storage call.
Admitted(req) ==
    /\ arrived' = arrived + 1
    /\ reqs' = Append(reqs, req)
    /\ phase' = [phase EXCEPT ![req.id] = PhaseOnArrival(req.kind, req.id)]
    /\ Silent
    /\ UNCHANGED <<images, meta, now, foreign, likeOk, rateOk>>

\* The catch block of a handler: 500.
Caught(r) ==
    /\ reqs' = Remove(r)
    /\ Respond(reqs[r], 500, NoBody)
    /\ phase' = [phase EXCEPT ![reqs[r].id] =
                    PhaseOnResponse(reqs[r].kind, reqs[r].id, 500)]
    /\ UNCHANGED <<store, now, foreign, arrived, likeOk, rateOk, submitted>>

\* download(), JSON.parse and the mutation, up to the call of upload().
Downloaded(r, photo) ==
    /\ reqs' = [reqs EXCEPT ![r].photo = photo, ![r].pc = "upload"]
    /\ Silent
    /\ UNCHANGED <<store, now, foreign, arrived, phase, likeOk, rateOk, submitted>>

\* upload() of the mutated record with overwrite, and the 200 response.
Uploaded(r) ==
    /\ meta' = MetaPut(reqs[r].id, JSONstringify(reqs[r].photo))
    /\ reqs' = Remove(r)
    /\ Respond(reqs[r], 200, BodyOf(reqs[r].photo))
    /\ UNCHANGED <<containers, images, now, foreign, arrived, phase, submitted>>

\* ---- POST /api/photos/:photoId/like
LikeExists(id, fail) ==
    /\ arrived < MaxReq
    /\ Throws(fail)
    /\ IF fail THEN Answered(NewReq("like", id, "exists"), 500)
       ELSE IF ~MetaExists(id) THEN Answered(NewReq("like", id, "exists"), 404)
       ELSE Admitted(NewReq("like", id, "download")) /\ UNCHANGED <<containers, submitted>>

LikeDownload(r, fail) ==
    /\ reqs[r].kind = "like" /\ reqs[r].pc = "download"
    /\ Throws(fail)
    /\ IF fail \/ reqs[r].id \notin DOMAIN meta THEN Caught(r)
       ELSE Downloaded(r, LikeMutation(JSONparse(meta[reqs[r].id])))

\* (variant) a like whose write adds one to the likes the store holds at the
\* time of the write, as a serialized read-modify-write would.
LikeUploadSerialized(r, fail) ==
    /\ reqs[r].kind = "like" /\ reqs[r].pc = "upload"
    /\ Throws(fail)
    /\ IF fail \/ reqs[r].id \notin DOMAIN meta THEN Caught(r)
       ELSE LET photo == LikeMutation(JSONparse(meta[reqs[r].id]))
            IN  /\ meta' = MetaPut(reqs[r].id, JSONstringify(photo))
                /\ reqs' = Remove(r)
                /\ Respond(reqs[r], 200, BodyOf(photo))
                /\ likeOk' = [likeOk EXCEPT ![reqs[r].id] = @ + 1]
                /\ UNCHANGED <<containers, images, now, foreign, arrived, phase, submitted, rateOk>>

LikeUpload(r, fail) ==
    /\ reqs[r].kind = "like" /\ reqs[r].pc = "upload"
    /\ Throws(fail)
    /\ IF fail THEN Caught(r)
       ELSE /\ Uploaded(r)
            /\ likeOk' = [likeOk EXCEPT ![reqs[r].id] = @ + 1]
            /\ UNCHANGED rateOk

\* ---- POST /api/photos/:photoId/rate
RateExists(id, rating, fail) ==
    LET req == [NewReq("rate", id, "exists") EXCEPT !.rating = rating]
    IN  /\ arrived < MaxReq
        /\ IF RatingRejected(rating)
           THEN ~fail /\ UNCHANGED faults /\ Answered(req, 400)
           ELSE /\ Throws(fail)
                /\ IF fail THEN Answered(req, 500)
                   ELSE IF ~MetaExists(id) THEN Answered(req, 404)
                   ELSE /\ Admitted([req EXCEPT !.pc = "download"])
                        /\ submitted' = [submitted EXCEPT ![id] = @ (+) SetToBag({rating})]
                        /\ UNCHANGED containers

RateDownload(r, fail) ==
    /\ reqs[r].kind = "rate" /\ reqs[r].pc = "download"
    /\ Throws(fail)
    /\ IF fail \/ reqs[r].id \notin DOMAIN meta THEN Caught(r)
       ELSE Downloaded(r, RateMutation(JSONparse(meta[reqs[r].id]), reqs[r].rating))

\* (variant) a rate whose failed upload has written the record all the same.
RateUploadTorn(r, fail) ==
    /\ reqs[r].kind = "rate" /\ reqs[r].pc = "upload"
    /\ Throws(fail)
    /\ IF fail
       THEN /\ meta' = MetaPut(reqs[r].id, JSONstringify(reqs[r].photo))
            /\ reqs' = Remove(r)
            /\ Respond(reqs[r], 500, NoBody)
            /\ UNCHANGED <<containers, images, now, foreign, arrived, phase, likeOk, rateOk,
                           submitted>>
       ELSE /\ Uploaded(r)
            /\ rateOk' = [rateOk EXCEPT ![reqs[r].id] = @ + 1]
            /\ UNCHANGED likeOk

RateUpload(r, fail) ==
    /\ reqs[r].kind = "rate" /\ reqs[r].pc = "upload"
    /\ Throws(fail)
    /\ IF fail THEN Caught(r)
       ELSE /\ Uploaded(r)
            /\ rateOk' = [rateOk EXCEPT ![reqs[r].id] = @ + 1]
            /\ UNCHANGED likeOk

\* ---- DELETE /api/photos/:photoId
DeleteExists(id, fail) ==
    /\ arrived < MaxReq
    /\ Throws(fail)
    /\ IF fail THEN Answered(NewReq("delete", id, "exists"), 500)
       ELSE IF ~MetaExists(id) THEN Answered(NewReq("delete", id, "exists"), 404)
       ELSE Admitted(NewReq("delete", id, "download")) /\ UNCHANGED <<containers, submitted>>

DeleteDownload(r, fail) ==
    /\ reqs[r].kind = "delete" /\ reqs[r].pc = "download"
    /\ Throws(fail)
    /\ IF fail \/ reqs[r].id \notin DOMAIN meta THEN Caught(r)
       ELSE /\ reqs' = [reqs EXCEPT ![r].photo = JSONparse(meta[reqs[r].id]),
                                    ![r].blob = UrlBlobName(JSONparse(meta[reqs[r].id]).url),
                                    ![r].pc = "deleteImage"]
            /\ Silent
            /\ UNCHANGED <<store, now, foreign, arrived, phase, likeOk, rateOk, submitted>>

\* (variant) an image delete outside any try block: its failure ends the
\* request with 500.
DeleteImageFatal(r, fail) ==
    /\ reqs[r].kind = "delete" /\ reqs[r].pc = "deleteImage"
    /\ Throws(fail)
    /\ IF fail \/ reqs[r].blob \notin images
       THEN Caught(r)
       ELSE /\ reqs' = [reqs EXCEPT ![r].pc = "deleteMetadata"]
            /\ images' = images \ {reqs[r].blob}
            /\ Silent
            /\ UNCHANGED <<containers, meta, now, foreign, arrived, phase, likeOk, rateOk, submitted>>

\* try { await imageBlobClient.delete() } catch { console.error(...) }
DeleteImage(r, fail) ==
    /\ reqs[r].kind = "delete" /\ reqs[r].pc = "deleteImage"
    /\ Throws(fail)
    /\ IF fail \/ reqs[r].blob \notin images
       THEN /\ reqs' = [reqs EXCEPT ![r].warned = TRUE, ![r].pc = "deleteMetadata"]
            /\ UNCHANGED images
       ELSE /\ reqs' = [reqs EXCEPT ![r].pc = "deleteMetadata"]
            /\ images' = images \ {reqs[r].blob}
    /\ Silent
    /\ UNCHANGED <<containers, meta, now, foreign, arrived, phase, likeOk, rateOk, submitted>>

DeleteMetadata(r, fail) ==
    /\ reqs[r].kind = "delete" /\ reqs[r].pc = "deleteMetadata"
    /\ Throws(fail)
    /\ IF fail \/ reqs[r].id \notin DOMAIN meta THEN Caught(r)
       ELSE /\ meta' = MetaRemove(reqs[r].id)
            /\ reqs' = Remove(r)
            /\ Respond(reqs[r], 200, NoBody)
            /\ phase' = [phase EXCEPT ![reqs[r].id] =
                            PhaseOnResponse("delete", reqs[r].id, 200)]
            /\ UNCHANGED <<containers, images, now, foreign, arrived, likeOk, rateOk, submitted>>

\* ---- POST /api/photos
\* (variant) a validation that does not look at fileName.
UploadRejectedNoFileName(title, imageData, fileName) ==
    ~ToBoolean(title) \/ ~ToBoolean(imageData)

\* if (!title) ... if (!imageData) ... if (!fileName) ... return 400
UploadRejected(title, imageData, fileName) ==
    ~ToBoolean(title) \/ ~ToBoolean(imageData) \/ ~ToBoolean(fileName)

\* Validation, photoId = Date.now(), and createIfNotExists on the photos
\* container.
UploadCreatePhotos(title, imageData, fileName, fail) ==
    LET photoId == now
        sanitizedFileName == Sanitize(fileName.s)
        blobName == BlobName(photoId, sanitizedFileName)
        req == [NewReq("upload", photoId, "createPhotos") EXCEPT
                    !.missing = FieldMissing(title, imageData, fileName)]
    IN  /\ arrived < MaxReq
        /\ IF UploadRejected(title, imageData, fileName)
           THEN ~fail /\ UNCHANGED faults /\ Answered([req EXCEPT !.pc = "validate"], 400)
           ELSE /\ Throws(fail)
                /\ IF fail THEN Answered(req, 500)
                   ELSE /\ Admitted([req EXCEPT
                                !.pc = "createMetadata",
                                !.blob = blobName,
                                !.photo = NewPhoto(photoId, title, ImageUrl(blobName),
                                                   sanitizedFileName, 0)])
                        /\ containers' = containers \cup {CONTAINER_NAME}
                        /\ UNCHANGED submitted

\* createIfNotExists on the metadata container.
UploadCreateMetadata(r, fail) ==
    /\ reqs[r].kind = "upload" /\ reqs[r].pc = "createMetadata"
    /\ Throws(fail)
    /\ IF fail THEN Caught(r)
       ELSE /\ containers' = containers \cup {METADATA_CONTAINER}
            /\ reqs' = [reqs EXCEPT ![r].pc = "uploadImage"]
            /\ Silent
            /\ UNCHANGED <<images, meta, now, foreign, arrived, phase, likeOk, rateOk, submitted>>

\* (variant) an image upload whose failure is swallowed.
UploadImageUnchecked(r, fail) ==
    /\ reqs[r].kind = "upload" /\ reqs[r].pc = "uploadImage"
    /\ Throws(fail)
    /\ images' = IF fail THEN images ELSE images \cup {reqs[r].blob}
    /\ reqs' = [reqs EXCEPT ![r].photo.uploadedAt = now,
                            ![r].imageWritten = ~fail,
                            ![r].pc = "uploadMetadata"]
    /\ Silent
    /\ UNCHANGED <<containers, meta, now, foreign, arrived, phase, likeOk, rateOk, submitted>>

\* blockBlobClient.upload(buffer) and the photo object with its uploadedAt.
UploadImage(r, fail) ==
    /\ reqs[r].kind = "upload" /\ reqs[r].pc = "uploadImage"
    /\ Throws(fail)
    /\ IF fail THEN Caught(r)
       ELSE /\ images' = images \cup {reqs[r].blob}
            /\ reqs' = [reqs EXCEPT ![r].photo.uploadedAt = now,
                                    ![r].imageWritten = TRUE,
                                    ![r].pc = "uploadMetadata"]
            /\ Silent
            /\ UNCHANGED <<containers, meta, now, foreign, arrived, phase, likeOk, rateOk, submitted>>

\* metadataBlobClient.upload(metadataJson) and the 201 response.
UploadMetadata(r, fail) ==
    /\ reqs[r].kind = "upload" /\ reqs[r].pc = "uploadMetadata"
    /\ Throws(fail)
    /\ IF fail THEN Caught(r)
       ELSE /\ meta' = MetaPut(reqs[r].id, JSONstringify(reqs[r].photo))
            /\ reqs' = Remove(r)
            /\ Respond(reqs[r], 201, BodyOf(reqs[r].photo))
            /\ phase' = [phase EXCEPT ![reqs[r].id] =
                            PhaseOnResponse("upload", reqs[r].id, 201)]
            /\ UNCHANGED <<containers, images, now, foreign, arrived, likeOk, rateOk, submitted>>

\* -------------------------------------------------------------------- spec
Next ==
    \/ Tick
    \/ \E id \in PhotoIds, fail \in BOOLEAN : LikeExists(id, fail)
    \/ \E r \in InFlight, fail \in BOOLEAN : LikeDownload(r, fail)
    \/ \E r \in InFlight, fail \in BOOLEAN : LikeUpload(r, fail)
    \/ \E id \in PhotoIds, rating \in RatingInputs, fail \in BOOLEAN :
            RateExists(id, rating, fail)
    \/ \E r \in InFlight, fail \in BOOLEAN : RateDownload(r, fail)
    \/ \E r \in InFlight, fail \in BOOLEAN : RateUpload(r, fail)
    \/ \E id \in PhotoIds, fail \in BOOLEAN : DeleteExists(id, fail)
    \/ \E r \in InFlight, fail \in BOOLEAN : DeleteDownload(r, fail)
    \/ \E r \in InFlight, fail \in BOOLEAN : DeleteImage(r, fail)
    \/ \E r \in InFlight, fail \in BOOLEAN : DeleteMetadata(r, fail)
    \/ \E title \in Titles, imageData \in ImageDatas, fileName \in FileNames,
          fail \in BOOLEAN : UploadCreatePhotos(title, imageData, fileName, fail)
    \/ \E r \in InFlight, fail \in BOOLEAN : UploadCreateMetadata(r, fail)
    \/ \E r \in InFlight, fail \in BOOLEAN : UploadImage(r, fail)
    \/ \E r \in InFlight, fail \in BOOLEAN : UploadMetadata(r, fail)

Spec == Init /\ [][Next]_vars

\* --------------------------------------------- requests on stored photos
\* The record and the image that an upload of file "b/?" at clock value id
\* has stored.
StoredFileName == Sanitize(<<"b", "/", "?">>)
StoredPhoto(id) ==
    NewPhoto(id, JSStr(<<"t">>), ImageUrl(BlobName(id, StoredFileName)),
             StoredFileName, id)

\* The ids of the two photos of the store.
StoredIds == {1, 2}

\* The rating of the rate requests on them.
StoredRatings == {JSNum(5, 1)}

\* The server starts on a store that holds two photos, uploaded one at a
\* time at the clock values 1 and 2.
StoredInit ==
    /\ containers = {CONTAINER_NAME, METADATA_CONTAINER}
    /\ images = {BlobName(id, StoredFileName) : id \in StoredIds}
    /\ meta = [id \in StoredIds |-> JSONstringify(StoredPhoto(id))]
    /\ foreign = {}
    /\ now = MaxTime
    /\ reqs = <<>>
    /\ arrived = 0
    /\ lastResp = NoResp
    /\ faults = 0
    /\ phase = [i \in PhotoIds |-> IF i \in StoredIds THEN "serial" ELSE "unborn"]
    /\ likeOk = [i \in PhotoIds |-> 0]
    /\ rateOk = [i \in PhotoIds |-> 0]
    /\ submitted = [i \in PhotoIds |-> EmptyBag]

\* Like, rate and delete requests only.
StoredNext ==
    \/ \E id \in PhotoIds, fail \in BOOLEAN : LikeExists(id, fail)
    \/ \E r \in InFlight, fail \in BOOLEAN : LikeDownload(r, fail)
    \/ \E r \in InFlight, fail \in BOOLEAN : LikeUpload(r, fail)
    \/ \E id \in PhotoIds, rating \in StoredRatings, fail \in BOOLEAN :
            RateExists(id, rating, fail)
    \/ \E r \in InFlight, fail \in BOOLEAN : RateDownload(r, fail)
    \/ \E r \in InFlight, fail \in BOOLEAN : RateUpload(r, fail)
    \/ \E id \in PhotoIds, fail \in BOOLEAN : DeleteExists(id, fail)
    \/ \E r \in InFlight, fail \in BOOLEAN : DeleteDownload(r, fail)
    \/ \E r \in InFlight, fail \in BOOLEAN : DeleteImage(r, fail)
    \/ \E r \in InFlight, fail \in BOOLEAN : DeleteMetadata(r, fail)

StoredSpec == StoredInit /\ [][StoredNext]_vars

\* ------------------------------------------------- one upload, then deletes
\* File names of up to MaxLen characters: a letter, a digit, the two other
\* characters that sanitization keeps, and the two separators of a URL.
KeyChars == {"a", "1", ".", "-", "/", "?"}
KeyFileNames == UNION {[1..n -> KeyChars] : n \in 1..MaxLen}

\* The server starts on an empty store at some clock value.
KeyInit ==
    /\ containers = {CONTAINER_NAME, METADATA_CONTAINER}
    /\ images = {}
    /\ meta = [i \in {} |-> NoPhoto]
    /\ foreign = {}
    /\ now \in PhotoIds
    /\ reqs = <<>>
    /\ arrived = 0
    /\ lastResp = NoResp
    /\ faults = 0
    /\ phase = [i \in PhotoIds |-> "unborn"]
    /\ likeOk = [i \in PhotoIds |-> 0]
    /\ rateOk = [i \in PhotoIds |-> 0]
    /\ submitted = [i \in PhotoIds |-> EmptyBag]

\* The first request is an upload of a file with one of the names.
KeyUpload(fileName, fail) ==
    /\ arrived = 0
    /\ UploadCreatePhotos(JSStr(<<"t">>), JSStr(<<"d">>), JSStr(fileName), fail)

\* The upload, and delete requests after it.
KeyNext ==
    \/ \E fileName \in KeyFileNames, fail \in BOOLEAN : KeyUpload(fileName, fail)
    \/ \E r \in InFlight, fail \in BOOLEAN : UploadCreateMetadata(r, fail)
    \/ \E r \in InFlight, fail \in BOOLEAN : UploadImage(r, fail)
    \/ \E r \in InFlight, fail \in BOOLEAN : UploadMetadata(r, fail)
    \/ \E id \in PhotoIds, fail \in BOOLEAN : arrived > 0 /\ DeleteExists(id, fail)
    \/ \E r \in InFlight, fail \in BOOLEAN : DeleteDownload(r, fail)
    \/ \E r \in InFlight, fail \in BOOLEAN : DeleteImage(r, fail)
    \/ \E r \in InFlight, fail \in BOOLEAN : DeleteMetadata(r, fail)

KeySpec == KeyInit /\ [][KeyNext]_vars

\* ------------------------------------------------------- GET /api/photos
JSON_SUFFIX == <<".", "j", "s", "o", "n">>

\* `${photoId}.json`
MetaName(photoId) == NatToString(photoId) \o JSON_SUFFIX

\* blob.name.endsWith('.json')
EndsWithJson(name) ==
    /\ Len(name) >= Len(JSON_SUFFIX)
    /\ SubSeq(name, Len(name) - Len(JSON_SUFFIX) + 1, Len(name)) = JSON_SUFFIX

\* The objects that something else than an upload of this server has put
\* into the metadata container: their names, in the order of a listing
\* (after the names that are numbers), and their texts.
ForeignNames == << <<"x", ".", "j", "s", "o", "n">>, <<"y", ".", "t", "x", "t">> >>
NullText == <<"n", "u", "l", "l">>
ForeignTexts == {<<"{">>, NullText}
ForeignBlobs ==
    {[name |-> ForeignNames[1], text |-> t] : t \in ForeignTexts}
        \cup {[name |-> ForeignNames[2], text |-> <<"{">>]}

\* The ids of a set in ascending order.
Ascending(ids) ==
    [i \in 1..Cardinality(ids) |->
        CHOOSE id \in ids : Cardinality({j \in ids : j < id}) = i - 1]

\* metadataContainer.listBlobsFlat(): the names of the container in
\* lexicographic order (the ids of a run have the same number of digits).
BlobNames ==
    LET ids == Ascending(DOMAIN meta)
        There(name) == \E f \in foreign : f.name = name
    IN  [i \in 1..Len(ids) |-> MetaName(ids[i])] \o SelectSeq(ForeignNames, There)

\* blobClient.download() and JSON.parse on the blob of that name throw: the
\* blob is not there, or its text is not JSON.
ReadThrows(name) ==
    /\ \A id \in DOMAIN meta : MetaName(id) # name
    /\ \A f \in foreign : f.name = name => f.text # NullText

\* JSON.parse of the text of the blob of that name.
ReadPhoto(name) ==
    IF \E id \in DOMAIN meta : MetaName(id) = name
    THEN JSONparse(meta[CHOOSE id \in DOMAIN meta : MetaName(id) = name])
    ELSE JSNull

\* (variant) oldest first.
CompareAscending(a, b) == a.uploadedAt - b.uploadedAt

\* (a, b) => new Date(b.uploadedAt) - new Date(a.uploadedAt)
Compare(a, b) == b.uploadedAt - a.uploadedAt

\* The comparator reads a property of null: TypeError.  An array of fewer
\* than two elements is sorted without a call of the comparator.
SortThrows(photos) ==
    Len(photos) >= 2 /\ \E i \in 1..Len(photos) : photos[i] = JSNull

RECURSIVE Insert(_, _)
\* x put behind the elements of the sorted array that do not come after it.
Insert(x, sorted) ==
    IF sorted = <<>> THEN <<x>>
    ELSE IF Compare(Head(sorted), x) <= 0
         THEN <<Head(sorted)>> \o Insert(x, Tail(sorted))
         ELSE <<x>> \o sorted

RECURSIVE Sort(_)
\* photos.sort(...): Array.prototype.sort is stable.
Sort(photos) ==
    IF Len(photos) < 2 THEN photos
    ELSE Insert(photos[Len(photos)], Sort(SubSeq(photos, 1, Len(photos) - 1)))

\* The catch block of the list handler: 500.
ListCaught(r, req) ==
    /\ reqs' = Remove(r)
    /\ Respond(req, 500, NoBody)
    /\ UNCHANGED <<store, now, foreign, arrived, phase, likeOk, rateOk, submitted>>

\* res.json(photos)
ListResponds(r, photos) ==
    /\ reqs' = Remove(r)
    /\ Respond([reqs[r] EXCEPT !.photos = photos], 200, NoBody)
    /\ UNCHANGED <<images, meta, now, foreign, arrived, phase, likeOk, rateOk,
                   submitted>>

\* metadataContainer.exists()
ListExists(fail) ==
    LET req == NewReq("list", 0, "exists")
    IN  /\ arrived < MaxReq
        /\ Throws(fail)
        /\ IF fail THEN Answered(req, 500)
           ELSE /\ arrived' = arrived + 1
                /\ reqs' = Append(reqs, [req EXCEPT !.pc =
                                IF METADATA_CONTAINER \in containers
                                THEN "listBlobs" ELSE "create"])
                /\ Silent
                /\ UNCHANGED <<store, now, foreign, phase, likeOk, rateOk, submitted>>

\* (variant) a listing that answers [] without creating the container.
ListCreateSkipped(r, fail) ==
    /\ reqs[r].kind = "list" /\ reqs[r].pc = "create"
    /\ Throws(fail)
    /\ IF fail THEN ListCaught(r, reqs[r])
       ELSE ListResponds(r, <<>>) /\ UNCHANGED containers

\* metadataContainer.createIfNotExists() and res.json([])
ListCreate(r, fail) ==
    /\ reqs[r].kind = "list" /\ reqs[r].pc = "create"
    /\ Throws(fail)
    /\ IF fail THEN ListCaught(r, reqs[r])
       ELSE /\ containers' = containers \cup {METADATA_CONTAINER}
            /\ ListResponds(r, <<>>)

\* The first iteration of listBlobsFlat(): the names of the container; those
\* that do not end in .json are passed over.
ListBlobs(r, fail) ==
    LET names == SelectSeq(BlobNames, EndsWithJson)
    IN  /\ reqs[r].kind = "list" /\ reqs[r].pc = "listBlobs"
        /\ Throws(fail)
        /\ IF fail THEN ListCaught(r, reqs[r])
           ELSE IF names = <<>>
           THEN ListResponds(r, Sort(<<>>)) /\ UNCHANGED containers
           ELSE /\ reqs' = [reqs EXCEPT ![r].names = names, ![r].pc = "download"]
                /\ Silent
                /\ UNCHANGED <<store, now, foreign, arrived, phase, likeOk, rateOk,
                               submitted>>

\* download() and JSON.parse of the next blob inside their own try block;
\* after the last blob, the sort and the response.
ListDownload(r, fail) ==
    LET name == Head(reqs[r].names)
        thrown == fail \/ ReadThrows(name)
        photos == IF thrown THEN reqs[r].photos
                  ELSE Append(reqs[r].photos, ReadPhoto(name))
        req == [reqs[r] EXCEPT !.photos = photos,
                               !.names = Tail(@),
                               !.warned = @ \/ thrown]
    IN  /\ reqs[r].kind = "list" /\ reqs[r].pc = "download"
        /\ Throws(fail)
        /\ IF req.names # <<>>
           THEN /\ reqs' = [reqs EXCEPT ![r] = req]
                /\ Silent
                /\ UNCHANGED <<store, now, foreign, arrived, phase, likeOk, rateOk,
                               submitted>>
           ELSE IF SortThrows(photos)
           THEN ListCaught(r, [req EXCEPT !.pc = "sort"])
           ELSE /\ reqs' = Remove(r)
                /\ Respond([req EXCEPT !.photos = Sort(photos)], 200, NoBody)
                /\ UNCHANGED <<store, now, foreign, arrived, phase, likeOk, rateOk,
                               submitted>>

\* The record an upload at clock value id has stored when its image was
\* written at clock value at.
ListedPhoto(id, at) == [StoredPhoto(id) EXCEPT !.uploadedAt = at]

\* The server starts on a store that holds photos uploaded one at a time at
\* some of the clock values, and objects that others have put into the
\* metadata container; or on a store without the metadata container.
ListInit ==
    /\ containers \in {{CONTAINER_NAME}, {CONTAINER_NAME, METADATA_CONTAINER}}
    /\ \E ids \in SUBSET PhotoIds :
          /\ METADATA_CONTAINER \notin containers => ids = {}
          /\ meta \in [ids -> {JSONstringify(ListedPhoto(id, at)) :
                                  id \in PhotoIds, at \in PhotoIds}]
          /\ \A id \in ids : meta[id].id = id /\ meta[id].uploadedAt >= id
          /\ images = {BlobName(id, StoredFileName) : id \in ids}
          /\ phase = [i \in PhotoIds |-> IF i \in ids THEN "serial" ELSE "unborn"]
    /\ foreign \in SUBSET ForeignBlobs
    /\ METADATA_CONTAINER \notin containers => foreign = {}
    /\ \A f, g \in foreign : f.name = g.name => f = g
    /\ now = MaxTime
    /\ reqs = <<>>
    /\ arrived = 0
    /\ lastResp = NoResp
    /\ faults = 0
    /\ likeOk = [i \in PhotoIds |-> 0]
    /\ rateOk = [i \in PhotoIds |-> 0]
    /\ submitted = [i \in PhotoIds |-> EmptyBag]

\* No request of that kind is being handled.
NoneInFlight(kind) == \A q \in InFlight : reqs[q].kind # kind

\* Listings one at a time, and delete requests one at a time alongside.
ListNext ==
    \/ \E fail \in BOOLEAN : NoneInFlight("list") /\ ListExists(fail)
    \/ \E r \in InFlight, fail \in BOOLEAN : ListCreate(r, fail)
    \/ \E r \in InFlight, fail \in BOOLEAN : ListBlobs(r, fail)
    \/ \E r \in InFlight, fail \in BOOLEAN : ListDownload(r, fail)
    \/ \E id \in PhotoIds, fail \in BOOLEAN :
            NoneInFlight("delete") /\ DeleteExists(id, fail)
    \/ \E r \in InFlight, fail \in BOOLEAN : DeleteDownload(r, fail)
    \/ \E r \in InFlight, fail \in BOOLEAN : DeleteImage(r, fail)
    \/ \E r \in InFlight, fail \in BOOLEAN : DeleteMetadata(r, fail)

ListSpec == ListInit /\ [][ListNext]_vars

\* ------------------------------------------------------------------ claims
\* Request r takes a step that sends its response.
Finished(r) == Len(reqs') = Len(reqs) - 1 /\ reqs' = Remove(r)

\* Request r takes a step that sends no response.
Stepped(r) == Len(reqs') = Len(reqs) /\ reqs'[r] # reqs[r]

\* The response of the step is the one of request r.
RespondsTo(r) == lastResp'.kind = reqs[r].kind /\ lastResp'.id = reqs[r].id

\* C1: like and rate requests on one id are not serialized.  A like or rate
\* request that completes its upload overwrites {id}.json with the record it
\* downloaded plus its own increment, whatever the store holds by then, and
\* responds 200 with the values it computed; so two requests that read the
\* same record both respond 200 and leave likes (ratingCount) one higher.
C1_LastWriterWins ==
    [][\A r \in InFlight :
          (/\ reqs[r].kind \in {"like", "rate"}
           /\ reqs[r].pc = "upload"
           /\ Finished(r)
           /\ faults' = faults)
          => /\ meta'[reqs[r].id] = JSONstringify(reqs[r].photo)
             /\ RespondsTo(r)
             /\ lastResp'.status = 200
             /\ lastResp'.body = BodyOf(reqs[r].photo)]_vars

\* One upload and two likes have run; both likes got 200 with likes = 1 and
\* the stored likes is 1.
C1_LostLike ==
    \E id \in DOMAIN meta :
        /\ arrived = 3 /\ InFlight = {}
        /\ likeOk[id] = 2
        /\ meta[id].likes = 1
        /\ lastResp.kind = "like" /\ lastResp.status = 200
        /\ lastResp.body.likes = 1

\* One upload and two rates have run; both rates got 200 and the stored
\* ratingCount is 1.
C1_LostRate ==
    \E id \in DOMAIN meta :
        /\ arrived = 3 /\ InFlight = {}
        /\ rateOk[id] = 2
        /\ meta[id].ratingCount = 1
        /\ lastResp.kind = "rate" /\ lastResp.status = 200
        /\ lastResp.body.ratingCount = 1

\* C2: n like requests run one after another on a freshly uploaded photo,
\* with no failing storage call, all respond 200; the k-th response carries
\* likes = k and the stored likes is the number of likes that have run.
C2_SequentialLikes ==
    \A id \in PhotoIds :
        (phase[id] = "serial" /\ faults = 0)
        => /\ id \in DOMAIN meta
           /\ Idle(id) => meta[id].likes = likeOk[id]
           /\ (lastResp.kind = "like" /\ lastResp.id = id)
              => (lastResp.status = 200 /\ lastResp.body.likes = likeOk[id])

C2_TwoLikes ==
    \E id \in DOMAIN meta :
        /\ phase[id] = "serial" /\ faults = 0 /\ Idle(id)
        /\ likeOk[id] = 2
        /\ meta[id].likes = 2
        /\ lastResp.kind = "like" /\ lastResp.id = id /\ lastResp.body.likes = 2

\* C3 as stated: in every interleaving the stored likes of a record never
\* decreases while its metadata object exists.
C3_LikesNeverDecrease ==
    [][\A id \in DOMAIN meta \cap DOMAIN meta' :
          meta'[id].likes >= meta[id].likes]_vars

\* C3 as amended: while the requests on an id have run one at a time since
\* its upload, the stored likes never decreases.
C3_SerialLikesMonotone ==
    [][\A id \in PhotoIds :
          (phase[id] = "serial" /\ phase'[id] = "serial")
          => /\ id \in DOMAIN meta /\ id \in DOMAIN meta'
             /\ meta'[id].likes >= meta[id].likes]_vars

\* A like and then a rate have run one after the other: the rate's write
\* kept the likes.
C3_RateAfterLike ==
    \E id \in DOMAIN meta :
        /\ phase[id] = "serial" /\ Idle(id)
        /\ likeOk[id] = 1 /\ rateOk[id] = 1
        /\ meta[id].likes = 1
        /\ lastResp.kind = "rate" /\ lastResp.id = id /\ lastResp.status = 200

\* A rating that is a number, or a string that denotes one.
Numeric(v) == v.t \in {"num", "str"} /\ ToNumber(v).t = "num"

\* A number in [1,5].
InRange(v) == v.t = "num" /\ v.d <= v.n /\ v.n <= 5 * v.d

RECURSIVE Picks(_, _)
\* The <<count, sum>> pairs of the ways to pick values from a bag of ratings
\* that denote integers.
Picks(bag, values) ==
    IF values = {} THEN {<<0, 0>>}
    ELSE LET v == CHOOSE x \in values : TRUE
             rest == Picks(bag, values \ {v})
         IN  {<<p[1] + k, p[2] + k * ToNumber(v).n>> : p \in rest, k \in 0..bag[v]}

\* C4 as stated: every stored rating is a number in [0,5] that is the mean
\* of exactly ratingCount of the values in [1,5] submitted by rate requests
\* on the id, and is 0 when ratingCount is 0.
C4_RatingIsMean ==
    \A id \in DOMAIN meta :
        LET p == meta[id]
            usable == {v \in BagToSet(submitted[id]) :
                          Numeric(v) /\ InRange(ToNumber(v)) /\ ToNumber(v).d = 1}
        IN  /\ p.rating.t = "num"
            /\ 0 <= p.rating.n /\ p.rating.n <= 5 * p.rating.d
            /\ p.ratingCount = 0 => p.rating.n = 0
            /\ \E pick \in Picks(submitted[id], usable) :
                    /\ pick[1] = p.ratingCount
                    /\ pick[2] * p.rating.d = p.rating.n * p.ratingCount

RECURSIVE BagTotal(_, _)
\* The sum of the integer ratings of a bag.
BagTotal(bag, values) ==
    IF values = {} THEN 0
    ELSE LET v == CHOOSE x \in values : TRUE
         IN  bag[v] * v.n + BagTotal(bag, values \ {v})

\* C5: the ratings r1..rk (numbers in [1,5]) submitted one after another to
\* a freshly uploaded photo, with no failing storage call, leave
\* ratingCount = k and rating = (r1 + ... + rk) / k, and the last response
\* carries these values; [5,3,4] gives ratingCount 3 and rating 4.
C5_SequentialRates ==
    /\ \A id \in PhotoIds :
        LET bag == submitted[id]
            k == BagCardinality(bag)
            total == BagTotal(bag, BagToSet(bag))
            mean == IF k = 0 THEN JSNum(0, 1) ELSE Frac(total, k)
        IN  (/\ phase[id] = "serial" /\ faults = 0 /\ Idle(id)
             /\ \A v \in BagToSet(bag) : v.t = "num")
            => /\ meta[id].ratingCount = k
               /\ meta[id].rating = mean
               /\ rateOk[id] = k
               /\ (lastResp.kind = "rate" /\ lastResp.id = id /\ lastResp.status # 400)
                  => /\ lastResp.status = 200
                     /\ lastResp.body.ratingCount = k
                     /\ lastResp.body.rating = mean
    /\ LET r3 == RateMutation(RateMutation(RateMutation(NoPhoto, JSNum(5, 1)),
                                           JSNum(3, 1)), JSNum(4, 1))
       IN  r3.ratingCount = 3 /\ r3.rating = JSNum(4, 1)

\* The ratings 1 and 5 have been submitted one after the other: the stored
\* and the returned mean are 3.
C5_MeanOfTwo ==
    \E id \in DOMAIN meta :
        /\ phase[id] = "serial" /\ faults = 0 /\ Idle(id)
        /\ submitted[id] = SetToBag({JSNum(1, 1), JSNum(5, 1)})
        /\ meta[id].ratingCount = 2 /\ meta[id].rating = JSNum(3, 1)
        /\ lastResp.kind = "rate" /\ lastResp.id = id
        /\ lastResp.body.rating = JSNum(3, 1)

\* C6 as stated: a rate request whose rating is missing, not a number, below
\* 1 or above 5 is answered 400 before any storage call; a rating of 1 or 5
\* is not rejected.
C6_RatingValidated ==
    /\ \A r \in InFlight :
          reqs[r].kind = "rate"
          => (Numeric(reqs[r].rating) /\ InRange(ToNumber(reqs[r].rating)))
    /\ lastResp.kind = "rate"
       => IF Numeric(lastResp.arg) /\ InRange(ToNumber(lastResp.arg))
          THEN lastResp.status # 400
          ELSE lastResp.status = 400 /\ lastResp.at = "exists"

\* C7: an upload whose title, imageData or fileName is missing or empty is
\* answered 400 in the step in which it arrives, makes no storage call and
\* leaves both containers as they were; no such request goes on to a
\* storage call.
C7_UploadValidated ==
    /\ [](\A r \in InFlight : ~reqs[r].missing)
    /\ [](lastResp.missing => lastResp.status = 400 /\ lastResp.at = "validate")
    /\ [][lastResp'.missing => (UNCHANGED store /\ UNCHANGED faults)]_vars

\* A record is stored and an upload without one of its fields got 400.
C7_RejectedUpload ==
    /\ DOMAIN meta # {}
    /\ lastResp.kind = "upload" /\ lastResp.missing /\ lastResp.status = 400

\* C8: after a delete that no other request on the id overlapped has
\* responded 200, {id}.json does not exist, and every later like, rate or
\* delete on the id is answered in its first step: 404 (400 for a rejected
\* rating, 500 when its exists() call fails).
C8_DeletedStaysDeleted ==
    \A id \in PhotoIds :
        phase[id] = "deleted"
        => /\ id \notin DOMAIN meta
           /\ Idle(id)
           /\ (lastResp.id = id /\ lastResp.kind \in {"like", "rate", "delete"})
              => \/ lastResp.status = 404
                 \/ lastResp.kind = "delete" /\ lastResp.status = 200
                                             /\ lastResp.at = "deleteMetadata"
                 \/ lastResp.kind = "rate" /\ lastResp.status = 400
                                           /\ RatingRejected(lastResp.arg)
                 \/ lastResp.status = 500 /\ lastResp.at = "exists" /\ faults > 0

\* A like on a deleted photo got 404.
C8_LikeAfterDelete ==
    \E id \in PhotoIds :
        /\ phase[id] = "deleted"
        /\ lastResp.id = id /\ lastResp.kind = "like" /\ lastResp.status = 404

\* C9: a delete that has read the record goes on to the metadata delete
\* whether or not the image delete succeeded, without responding; and when
\* its metadata delete succeeds it responds 200 with the id.
C9_ImageDeleteSwallowed ==
    [][\A r \in InFlight :
          reqs[r].kind = "delete"
          => /\ (reqs[r].pc = "deleteImage" /\ (Stepped(r) \/ Finished(r)))
                => (Stepped(r) /\ reqs'[r].pc = "deleteMetadata"
                    /\ lastResp' = NoResp /\ meta' = meta)
             /\ (reqs[r].pc = "deleteMetadata" /\ Finished(r)
                 /\ reqs[r].id \in DOMAIN meta /\ reqs[r].id \notin DOMAIN meta')
                => (RespondsTo(r) /\ lastResp'.status = 200)]_vars

\* A delete whose image delete failed responded 200; the image is still
\* stored and the metadata is gone.
C9_DeletedWithWarning ==
    /\ lastResp.kind = "delete" /\ lastResp.status = 200 /\ lastResp.warned
    /\ lastResp.id \notin DOMAIN meta
    /\ images # {}
    /\ arrived = 2

\* C10: an upload writes {id}.json only after its own image write has
\* succeeded; when its image write fails it responds 500 and writes no
\* metadata.
C10_ImageBeforeMetadata ==
    /\ [](\A r \in InFlight :
            (reqs[r].kind = "upload" /\ reqs[r].pc = "uploadMetadata")
            => reqs[r].imageWritten)
    /\ [][\A r \in InFlight :
            reqs[r].kind = "upload"
            => /\ (meta' # meta /\ Finished(r)) => reqs[r].imageWritten
               /\ (reqs[r].pc = "uploadImage" /\ (Stepped(r) \/ Finished(r))
                   /\ reqs[r].blob \notin images')
                  => (Finished(r) /\ RespondsTo(r)
                      /\ lastResp'.status = 500 /\ meta' = meta)]_vars

\* An upload whose image write failed got 500 and nothing is stored.
C10_FailedImageUpload ==
    /\ lastResp.kind = "upload" /\ lastResp.status = 500
    /\ lastResp.at = "uploadImage"
    /\ images = {} /\ DOMAIN meta = {}

\* C14 as stated: a like, rate or delete request whose id has no metadata
\* object when the request downloads it (another request deleted the object
\* after this request's existence check) ends with 404 and leaves the store
\* as it was.
C14_MissingIsNotFound ==
    [][\A r \in InFlight :
          (/\ reqs[r].kind \in {"like", "rate", "delete"}
           /\ reqs[r].pc = "download"
           /\ reqs[r].id \notin DOMAIN meta
           /\ (Stepped(r) \/ Finished(r))
           /\ faults' = faults)
          => (/\ Finished(r) /\ RespondsTo(r)
              /\ lastResp'.status = 404
              /\ UNCHANGED store)]_vars

\* C16 as stated: the metadata write of a successful upload never finds an
\* object {id}.json already there.
C16_IdsUnique ==
    [][\A r \in InFlight :
          (/\ reqs[r].kind = "upload" /\ reqs[r].pc = "uploadMetadata"
           /\ Finished(r) /\ lastResp'.status = 201)
          => reqs[r].id \notin DOMAIN meta]_vars

\* C16 as amended: the id of an upload is the value of Date.now() when it
\* arrives; an upload that is the only one to have arrived at its clock value
\* creates {id}.json without overwriting anything and leaves every other
\* object in place, so uploads at k distinct clock values (with no delete and
\* no failure) leave k records.
C16_IdIsArrivalTime ==
    /\ [][(Len(reqs') = Len(reqs) + 1 /\ reqs'[Len(reqs')].kind = "upload")
            => reqs'[Len(reqs')].id = now]_vars
    /\ [][\A r \in InFlight :
            (/\ reqs[r].kind = "upload" /\ reqs[r].pc = "uploadMetadata"
             /\ Finished(r) /\ lastResp'.status = 201
             /\ phase[reqs[r].id] = "uploading")
            => /\ reqs[r].id \notin DOMAIN meta
               /\ DOMAIN meta' = DOMAIN meta \cup {reqs[r].id}
               /\ \A i \in DOMAIN meta : meta'[i] = meta[i]]_vars
    /\ []((\A id \in PhotoIds : phase[id] \in {"unborn", "uploading", "serial"})
            => Cardinality(DOMAIN meta)
                 = Cardinality({id \in PhotoIds : phase[id] = "serial"}))

\* Two uploads at two clock values have both been answered 201: two records.
C16_TwoRecords ==
    /\ Cardinality(DOMAIN meta) = 2
    /\ \A id \in DOMAIN meta : phase[id] = "serial"
    /\ lastResp.kind = "upload" /\ lastResp.status = 201

\* C17: a like or rate request writes only in its last step, and what it
\* writes is the one object {id}.json; a storage call of it that fails ends
\* the request at once with 500 and leaves the store as it was.
C17_FailureIs500 ==
    [][/\ \A r \in InFlight :
            reqs[r].kind \in {"like", "rate"}
            => /\ Stepped(r) => UNCHANGED store
               /\ (Finished(r) /\ store' # store)
                  => /\ lastResp'.status = 200
                     /\ UNCHANGED <<containers, images>>
                     /\ \A i \in DOMAIN meta \ {reqs[r].id} :
                            i \in DOMAIN meta' /\ meta'[i] = meta[i]
               /\ ((Stepped(r) \/ Finished(r)) /\ faults' # faults)
                  => /\ Finished(r) /\ RespondsTo(r)
                     /\ lastResp'.status = 500
                     /\ UNCHANGED store
       /\ (arrived' # arrived /\ faults' # faults
           /\ lastResp'.kind \in {"like", "rate"})
          => (lastResp'.status = 500 /\ reqs' = reqs /\ UNCHANGED store)]_vars

\* The upload of a rate failed: 500, and the record still has no rating.
C17_FailedRateUpload ==
    /\ lastResp.kind = "rate" /\ lastResp.status = 500 /\ lastResp.at = "upload"
    /\ lastResp.id \in DOMAIN meta
    /\ meta[lastResp.id].ratingCount = 0

\* The records p and q agree on every field outside the set own.
SameExcept(p, q, own) == \A f \in (DOMAIN p) \ own : q[f] = p[f]

\* C18 as stated: the write of a successful like leaves every field but
\* likes, and the write of a successful rate every field but rating and
\* ratingCount, as the store held it just before the write; neither touches
\* the images.
C18_OnlyOwnFields ==
    [][\A r \in InFlight :
          (/\ reqs[r].kind \in {"like", "rate"}
           /\ Finished(r) /\ lastResp'.status = 200
           /\ reqs[r].id \in DOMAIN meta)
          => /\ images' = images
             /\ SameExcept(meta[reqs[r].id], meta'[reqs[r].id],
                           IF reqs[r].kind = "like" THEN {"likes"}
                           ELSE {"rating", "ratingCount"})]_vars

\* C18 as amended: the same, for the requests on an id that have run one at
\* a time since its upload; and while they do, uploadedAt, url and id of the
\* stored record stay as the upload wrote them.  No like or rate step writes
\* to the images, overlapping or not.
C18_SerialOwnFields ==
    /\ [][\A r \in InFlight :
            (reqs[r].kind \in {"like", "rate"} /\ (Stepped(r) \/ Finished(r)))
            => /\ images' = images
               /\ (Finished(r) /\ lastResp'.status = 200
                   /\ phase[reqs[r].id] = "serial")
                  => /\ reqs[r].id \in DOMAIN meta
                     /\ SameExcept(meta[reqs[r].id], meta'[reqs[r].id],
                                   IF reqs[r].kind = "like" THEN {"likes"}
                                   ELSE {"rating", "ratingCount"})]_vars
    /\ [][\A id \in PhotoIds :
            (phase[id] = "serial" /\ phase'[id] = "serial")
            => SameExcept(meta[id], meta'[id],
                          {"likes", "rating", "ratingCount"})]_vars

\* A rate and then a like have run one after the other: the like's write
\* kept the rating.
C18_LikeAfterRate ==
    \E id \in DOMAIN meta :
        /\ phase[id] = "serial" /\ Idle(id)
        /\ likeOk[id] = 1 /\ rateOk[id] = 1
        /\ meta[id].ratingCount = 1 /\ meta[id].likes = 1
        /\ lastResp.kind = "like" /\ lastResp.id = id /\ lastResp.status = 200

\* C20 as stated: a like or rate request whose record has been deleted
\* since it was admitted (it is admitted only when {id}.json exists) never
\* writes {id}.json again.
C20_NeverRecreates ==
    [][\A r \in InFlight :
          (/\ reqs[r].kind \in {"like", "rate"}
           /\ reqs[r].id \notin DOMAIN meta
           /\ (Stepped(r) \/ Finished(r)))
          => reqs[r].id \notin DOMAIN meta']_vars

\* The image keys of photo id: those that start with "{id}-".
OwnedBy(blob, id) ==
    LET prefix == NatToString(id) \o <<"-">>
    IN  Len(blob) >= Len(prefix) /\ SubSeq(blob, 1, Len(prefix)) = prefix

\* The requests on photo id, in arrival order.
RequestsOn(seq, id) == LET On(q) == q.id = id IN SelectSeq(seq, On)

\* A step leaves the objects of photo id and the requests on it as they are.
Untouched(id) ==
    /\ (id \in DOMAIN meta) = (id \in DOMAIN meta')
    /\ id \in DOMAIN meta => meta'[id] = meta[id]
    /\ {b \in images' : OwnedBy(b, id)} = {b \in images : OwnedBy(b, id)}
    /\ RequestsOn(reqs', id) = RequestsOn(reqs, id)

\* C15: like, rate and delete requests on different ids do not interfere.
\* Every step of a request on id B, its arrival included, leaves the
\* metadata object, the images and the requests of every other id A as they
\* are and does not answer for A; and what a request on A reads is the
\* object A.json alone: the record a like or rate goes on with is the stored
\* record of A with the request's own change, the image a delete goes on to
\* delete is the one of A's record.  So the responses on A and the record
\* of A are the same with and without the requests on B.
C15_OtherIdsUntouched ==
    [][/\ \A r \in InFlight :
            (Stepped(r) \/ Finished(r))
            => /\ \A A \in PhotoIds \ {reqs[r].id} : Untouched(A)
               /\ lastResp'.kind # "none" => lastResp'.id = reqs[r].id
               /\ (Stepped(r) /\ reqs[r].pc = "download")
                  => /\ reqs[r].id \in DOMAIN meta
                     /\ reqs[r].kind = "like"
                        => reqs'[r].photo = LikeMutation(meta[reqs[r].id])
                     /\ reqs[r].kind = "rate"
                        => reqs'[r].photo = RateMutation(meta[reqs[r].id],
                                                         reqs[r].rating)
                     /\ reqs[r].kind = "delete"
                        => /\ reqs'[r].photo = meta[reqs[r].id]
                           /\ OwnedBy(reqs'[r].blob, reqs[r].id)
       /\ arrived' # arrived
          => /\ UNCHANGED store
             /\ \A A \in PhotoIds :
                    (lastResp'.kind = "none" => reqs'[Len(reqs')].id # A)
                    /\ (lastResp'.kind # "none" => lastResp'.id # A)
                    => Untouched(A)]_vars

\* A delete on one photo has been answered 200 while a like on the other
\* photo, which has read its record, waits for its write; the other record
\* is as it was stored.
C15_DeleteBesideLike ==
    \E A \in StoredIds, r \in InFlight :
        /\ lastResp.kind = "delete" /\ lastResp.status = 200
        /\ lastResp.id # A /\ lastResp.id \notin DOMAIN meta
        /\ reqs[r].kind = "like" /\ reqs[r].id = A /\ reqs[r].pc = "upload"
        /\ A \in DOMAIN meta /\ meta[A] = JSONstringify(StoredPhoto(A))
        /\ BlobName(A, StoredFileName) \in images

\* The characters that sanitization keeps, and "_".
KeptChars == Letters \cup {"0", "1", "2", "3", "4", "5", "6", "7", "8", "9"}
                     \cup {".", "-", "_"}

\* C19: for every id and file name, the image key is {id}-{sanitized name}
\* with no character outside [A-Za-z0-9.-_]; the key a delete takes from the
\* url of the record (last "/" segment, up to the first "?") is that key, it
\* is a key of the delete's own id, and a delete whose image delete succeeds
\* removes that one image and no other.
C19_DeleteTargetsOwnImage ==
    /\ [](\A r \in InFlight :
            reqs[r].kind = "upload"
            => /\ \A i \in 1..Len(reqs[r].photo.fileName) :
                      reqs[r].photo.fileName[i] \in KeptChars
               /\ reqs[r].blob = BlobName(reqs[r].id, reqs[r].photo.fileName)
               /\ UrlBlobName(reqs[r].photo.url) = reqs[r].blob)
    /\ [](\A b \in images : \E id \in PhotoIds : OwnedBy(b, id))
    /\ [](\A id \in DOMAIN meta :
            /\ meta[id].id = id
            /\ UrlBlobName(meta[id].url) = BlobName(id, meta[id].fileName))
    /\ [](\A r \in InFlight :
            (reqs[r].kind = "delete"
             /\ reqs[r].pc \in {"deleteImage", "deleteMetadata"})
            => /\ reqs[r].blob = BlobName(reqs[r].id, reqs[r].photo.fileName)
               /\ \A id \in PhotoIds : OwnedBy(reqs[r].blob, id) = (id = reqs[r].id))
    /\ [][\A r \in InFlight :
            (reqs[r].kind = "delete" /\ reqs[r].pc = "deleteImage" /\ Stepped(r))
            => IF reqs'[r].warned
               THEN images' = images
               ELSE /\ BlobName(reqs[r].id, reqs[r].photo.fileName) \in images
                    /\ images' = images
                                    \ {BlobName(reqs[r].id, reqs[r].photo.fileName)}]_vars

\* A photo uploaded under a name of two separators ("/" or "?") and stored
\* as {id}-__ is being deleted: its image is gone, no warning was logged,
\* and the metadata delete is next.
C19_SeparatorsInName ==
    \E r \in InFlight :
        /\ reqs[r].kind = "delete" /\ reqs[r].pc = "deleteMetadata"
        /\ ~reqs[r].warned
        /\ reqs[r].photo.fileName = <<"_", "_">>
        /\ reqs[r].blob = NatToString(reqs[r].id) \o <<"-", "_", "_">>
        /\ images = {} /\ faults = 0

\* C11 as stated: a listing that has read the names of the container answers
\* 200 after its last blob, whatever the blobs hold and whichever reads
\* failed.
C11_FailuresIsolated ==
    [][\A r \in InFlight :
          (reqs[r].kind = "list" /\ reqs[r].pc = "download" /\ Finished(r))
          => lastResp'.status = 200]_vars

\* What JSON.parse makes of the blobs of the metadata container whose name
\* ends in .json and whose text is JSON.
Listable ==
    {JSONparse(meta[id]) : id \in DOMAIN meta}
        \cup {JSNull : f \in {g \in foreign : EndsWithJson(g.name)
                                              /\ g.text = NullText}}

\* C12: the array of a 200 response of a listing is ordered by uploadedAt,
\* newest first; and when no storage call has failed and no delete has been
\* admitted, it holds each blob of the container whose name ends in .json
\* and whose text is JSON once, and nothing else.
C12_ListSorted ==
    (lastResp.kind = "list" /\ lastResp.status = 200)
    => LET photos == lastResp.photos
       IN  /\ Len(photos) >= 2 => \A i \in 1..Len(photos) : photos[i] # JSNull
           /\ \A i, j \in 1..Len(photos) :
                  i < j => photos[i].uploadedAt >= photos[j].uploadedAt
           /\ (/\ faults = 0
               /\ \A id \in PhotoIds : phase[id] \in {"unborn", "serial"}
               /\ METADATA_CONTAINER \in containers /\ lastResp.at # "create")
              => /\ {photos[i] : i \in 1..Len(photos)} = Listable
                 /\ Len(photos) = Cardinality(Listable)

\* A listing of a container that holds 1.json (uploaded first), 2.json, a
\* blob x.json that is not JSON and a blob y.txt has answered with the
\* records of 2.json and 1.json, in this order.
C12_NewestFirst ==
    /\ lastResp.kind = "list" /\ lastResp.status = 200
    /\ Len(lastResp.photos) = 2
    /\ lastResp.photos[1].id = 2 /\ lastResp.photos[2].id = 1
    /\ lastResp.photos[1].uploadedAt > lastResp.photos[2].uploadedAt
    /\ Cardinality(foreign) = 2
    /\ faults = 0

\* C13: when no storage call fails, a listing that finds no metadata
\* container creates it and answers 200 with [], and a listing of a
\* container without a blob whose name ends in .json answers 200 with [].
C13_EmptyListing ==
    [][/\ (Len(reqs') = Len(reqs) + 1 /\ reqs'[Len(reqs')].kind = "list")
          => reqs'[Len(reqs')].pc = IF METADATA_CONTAINER \in containers
                                    THEN "listBlobs" ELSE "create"
       /\ \A r \in InFlight :
            (reqs[r].kind = "list" /\ (Stepped(r) \/ Finished(r))
             /\ faults' = faults)
            => /\ reqs[r].pc = "create"
                  => /\ Finished(r) /\ RespondsTo(r)
                     /\ lastResp'.status = 200 /\ lastResp'.photos = <<>>
                     /\ METADATA_CONTAINER \in containers'
               /\ (/\ reqs[r].pc = "listBlobs"
                   /\ DOMAIN meta = {}
                   /\ \A f \in foreign : ~EndsWithJson(f.name))
                  => /\ Finished(r) /\ RespondsTo(r)
                     /\ lastResp'.status = 200 /\ lastResp'.photos = <<>>]_vars

\* A listing found no metadata container and answered 200 with []; the
\* container exists now.
C13_CreatedOnListing ==
    /\ lastResp.kind = "list" /\ lastResp.status = 200 /\ lastResp.at = "create"
    /\ lastResp.photos = <<>>
    /\ METADATA_CONTAINER \in containers
    /\ arrived = 1

====
